---- MODULE Spec2Model ----
(***************************************************************************)
(* A model of the QGIS processing scripts of morph_blocks:                 *)
(*   src/code/morph_blocks.py   MorphBlocks.processAlgorithm               *)
(*   src/code/check_data.py     Modell.processAlgorithm                    *)
(*   src/code/morphology/morphology.py   zrfPlugin                         *)
(* Each of the three has its own specification (Spec, SpecModell,          *)
(* SpecPlugin); in each, the variables of the other two stand still.       *)
(*                                                                         *)
(* Geometry is modelled on the integer grid: a polygon geometry is a       *)
(* finite set of unit cells <<x, y>>, a point geometry is a single cell,   *)
(* two cells are connected when they share an edge, and buffer distances   *)
(* are measured in cells.  The geoprocessing algorithms the script calls   *)
(* through processing.run are operators on layers, written from the        *)
(* parameter dictionaries the script passes to them.                       *)
(***************************************************************************)
EXTENDS Integers, Sequences, FiniteSets, TLC

(***************************************************************************)
(* Bounds of the model.                                                    *)
(***************************************************************************)
\* at most this many footprints in the input layer
MaxFootprints == 2
\* footprints are placed with their left edge at x in 0..MaxPos
MaxPos == 2
\* buffer values 0..MaxD (the scenario inputs add their own value)
MaxD == 1
\* at most this many calls are made on one plugin object
MaxCalls == 6

(***************************************************************************)
(* Grid geometry.                                                          *)
(***************************************************************************)
Shift(c, o) == <<c[1] + o[1], c[2] + o[2]>>

Rect(x1, x2, y1, y2) == {<<x, y>> : x \in x1..x2, y \in y1..y2}

\* the cells within distance d of the origin
Ball(d) == Rect(-d, d, -d, d)

Neighbours(c) == {<<c[1] + 1, c[2]>>, <<c[1] - 1, c[2]>>,
                  <<c[1], c[2] + 1>>, <<c[1], c[2] - 1>>}

RECURSIVE Grow(_, _)
\* the cells of X connected to the cells S (S a subset of X)
Grow(X, S) ==
    LET T == S \cup {c \in X : Neighbours(c) \cap S # {}}
    IN  IF T = S THEN S ELSE Grow(X, T)

\* the connected components of the geometry X
RECURSIVE Components(_)
Components(X) ==
    IF X = {} THEN {}
    ELSE LET c == CHOOSE c \in X : TRUE
             K == Grow(X, {c})
         IN  {K} \cup Components(X \ K)

SetMin(S) == CHOOSE m \in S : \A k \in S : m <= k
SetMax(S) == CHOOSE m \in S : \A k \in S : m >= k

\* the interior rings of X: the components of its complement that do not
\* reach the outside of its bounding box
InteriorRings(X) ==
    IF X = {} THEN {}
    ELSE LET xs == {c[1] : c \in X}
             ys == {c[2] : c \in X}
             Box == Rect(SetMin(xs) - 1, SetMax(xs) + 1, SetMin(ys) - 1, SetMax(ys) + 1)
             Free == Box \ X
             Outside == Grow(Free, {<<SetMin(xs) - 1, SetMin(ys) - 1>>})
         IN  Components(Free \ Outside)

RECURSIVE SumCard(_)
SumCard(SS) ==
    IF SS = {} THEN 0
    ELSE LET K == CHOOSE K \in SS : TRUE
         IN  Cardinality(K) + SumCard(SS \ {K})

(***************************************************************************)
(* Layers.  A layer is its field list, its CRS and its features in         *)
(* iteration order; a feature is a geometry and an attribute map over the  *)
(* layer's fields.                                                         *)
(***************************************************************************)
\* the attribute value of a field that was never assigned
NULL == -1

NoLayer == [fields |-> <<>>, crs |-> "", feats |-> <<>>]

Feature(g, a) == [geom |-> g, attrs |-> a]

Range(s) == {s[i] : i \in DOMAIN s}

RECURSIVE Flatten(_)
\* the concatenation of a sequence of sequences
Flatten(ss) == IF ss = <<>> THEN <<>> ELSE Head(ss) \o Flatten(Tail(ss))

\* geometry predicates of the engine, on cell sets
Intersects(g, h) == g \cap h # {}

\* a geometry against a rectangle [xMin, xMax] x [yMin, yMax]
IntersectsExtent(g, e) ==
    \E c \in g : e.xMin <= c[1] /\ c[1] <= e.xMax /\ e.yMin <= c[2] /\ c[2] <= e.yMax

\* native:fixgeometries, METHOD 1: every feature is kept; a cell set is a
\* valid geometry, and a valid geometry is returned as it is
MakeValid(g) == g

FixGeometries(layer) ==
    [layer EXCEPT !.feats =
        [i \in DOMAIN layer.feats |-> [layer.feats[i] EXCEPT !.geom = MakeValid(@)]]]

\* variant: CLIP True, the kept geometries are cut at the extent
ExtractByExtentClip(layer, extent) ==
    LET kept == SelectSeq(layer.feats, LAMBDA f : IntersectsExtent(f.geom, extent))
    IN  [layer EXCEPT !.feats =
            [i \in DOMAIN kept |->
                [kept[i] EXCEPT !.geom = {c \in @ : IntersectsExtent({c}, extent)}]]]

\* native:extractbyextent with CLIP False: the features whose geometry
\* intersects the extent, geometries untouched
ExtractByExtent(layer, extent) ==
    [layer EXCEPT !.feats =
        SelectSeq(layer.feats, LAMBDA f : IntersectsExtent(f.geom, extent))]

\* native:reprojectlayer with OPERATION '+proj=noop': the layer is declared
\* to be in the target CRS, the coordinates pass through the no-op operation
ReprojectLayer(layer, target) == [layer EXCEPT !.crs = target]

UnionAll(gs) == UNION gs

\* native:dissolve with FIELD [] and SEPARATE_DISJOINT False: one feature,
\* the union of all geometries (one multi-part geometry), carrying the
\* attributes of the first feature; no feature for an empty layer
DissolveAll(layer) ==
    [layer EXCEPT !.feats =
        IF layer.feats = <<>> THEN <<>>
        ELSE << Feature(UnionAll({f.geom : f \in Range(layer.feats)}),
                        layer.feats[1].attrs) >>]

\* variant: the features without a value in the field are left out
DissolveBySkipNull(layer, field) ==
    LET fs == SelectSeq(layer.feats, LAMBDA f : f.attrs[field] # NULL)
        IsFirst(i) == \A j \in 1..(i - 1) : fs[j].attrs[field] # fs[i].attrs[field]
        Firsts == SelectSeq([i \in DOMAIN fs |-> i], IsFirst)
        Group(i) == {f \in Range(fs) : f.attrs[field] = fs[i].attrs[field]}
    IN  [layer EXCEPT !.feats =
            [k \in DOMAIN Firsts |->
                Feature(UnionAll({f.geom : f \in Group(Firsts[k])}), fs[Firsts[k]].attrs)]]

\* native:dissolve with FIELD [field] and SEPARATE_DISJOINT False: one
\* feature per distinct value of the field (NULL is a value like any other),
\* in the order the values first appear
DissolveBy(layer, field) ==
    LET fs == layer.feats
        IsFirst(i) == \A j \in 1..(i - 1) : fs[j].attrs[field] # fs[i].attrs[field]
        Firsts == SelectSeq([i \in DOMAIN fs |-> i], IsFirst)
        Group(i) == {f \in Range(fs) : f.attrs[field] = fs[i].attrs[field]}
    IN  [layer EXCEPT !.feats =
            [k \in DOMAIN Firsts |->
                Feature(UnionAll({f.geom : f \in Group(Firsts[k])}), fs[Firsts[k]].attrs)]]

\* the inward buffer: the cells whose whole d-neighbourhood lies in X
Erode(X, d) == {c \in X : \A o \in Ball(d) : Shift(c, o) \in X}

\* the outward buffer: the cells within distance d of X
Dilate(X, d) == {Shift(c, o) : c \in X, o \in Ball(d)}

BufferGeom(X, distance) ==
    IF distance < 0 THEN Erode(X, -distance) ELSE Dilate(X, distance)

\* native:buffer with DISSOLVE False and SEPARATE_DISJOINT False: every
\* feature is kept with its attributes, its geometry buffered as a whole
Buffer(layer, distance) ==
    [layer EXCEPT !.feats =
        [i \in DOMAIN layer.feats |->
            [layer.feats[i] EXCEPT !.geom = BufferGeom(@, distance)]]]

\* the point the engine puts on a polygon: on the middle row of the
\* geometry, the middle of the widest stretch of that row that is inside
PointOnSurfaceGeom(g) ==
    LET ys == {c[2] : c \in g}
        y == (SetMin(ys) + SetMax(ys)) \div 2
        row == {c[1] : c \in {b \in g : b[2] = y}}
        starts == {x \in row : x - 1 \notin row}
        RunLen(x) == SetMin({k \in 1..(Cardinality(row) + 1) : x + k \notin row})
        best == SetMin({x \in starts : \A z \in starts : RunLen(z) <= RunLen(x)})
    IN  {<<best + (RunLen(best) - 1) \div 2, y>>}

\* native:pointonsurface with ALL_PARTS False: one point per feature
PointOnSurface(layer) ==
    [layer EXCEPT !.feats =
        [i \in DOMAIN layer.feats |->
            [layer.feats[i] EXCEPT !.geom = PointOnSurfaceGeom(@)]]]

\* variant: DISCARD_NONMATCHING True, an unmatched feature loses its row
JoinAttributesByLocationDiscard(input, join, joinField, name) ==
    LET Rows(f) ==
            LET ms == SelectSeq(join.feats, LAMBDA j : Intersects(f.geom, j.geom))
            IN  [k \in DOMAIN ms |->
                    Feature(f.geom, f.attrs @@ (name :> ms[k].attrs[joinField]))]
    IN  [input EXCEPT !.fields = Append(@, name),
                      !.feats = Flatten([i \in DOMAIN input.feats |-> Rows(input.feats[i])])]

\* native:joinattributesbylocation with every predicate, METHOD 0 (one row
\* per matching join feature), DISCARD_NONMATCHING False (an unmatched
\* feature keeps its row, the joined field NULL); name is the joined field
\* under its PREFIX
JoinAttributesByLocation(input, join, joinField, name) ==
    LET Rows(f) ==
            LET ms == SelectSeq(join.feats, LAMBDA j : Intersects(f.geom, j.geom))
            IN  IF ms = <<>>
                THEN << Feature(f.geom, f.attrs @@ (name :> NULL)) >>
                ELSE [k \in DOMAIN ms |->
                        Feature(f.geom, f.attrs @@ (name :> ms[k].attrs[joinField]))]
    IN  [input EXCEPT !.fields = Append(@, name),
                      !.feats = Flatten([i \in DOMAIN input.feats |-> Rows(input.feats[i])])]

\* variant: METHOD 0, one row per matching row of the second table
JoinAttributesTableOneToMany(input, field, input2, field2, copy) ==
    LET Rows(f) ==
            LET ms == SelectSeq(input2.feats, LAMBDA r : r.attrs[field2] = f.attrs[field])
            IN  IF ms = <<>>
                THEN << Feature(f.geom, f.attrs @@ (copy :> NULL)) >>
                ELSE [k \in DOMAIN ms |->
                        Feature(f.geom, f.attrs @@ (copy :> ms[k].attrs[copy]))]
    IN  [input EXCEPT !.fields = Append(@, copy),
                      !.feats = Flatten([i \in DOMAIN input.feats |-> Rows(input.feats[i])])]

\* native:joinattributestable with METHOD 1 (the first matching row only)
\* and DISCARD_NONMATCHING False
JoinAttributesTable(input, field, input2, field2, copy) ==
    LET Joined(f) ==
            LET ms == SelectSeq(input2.feats, LAMBDA r : r.attrs[field2] = f.attrs[field])
            IN  Feature(f.geom,
                        f.attrs @@ (copy :> IF ms = <<>> THEN NULL ELSE ms[1].attrs[copy]))
    IN  [input EXCEPT !.fields = Append(@, copy),
                      !.feats = [i \in DOMAIN input.feats |-> Joined(input.feats[i])]]

\* native:addfieldtoattributestable on a layer that has no field of that
\* name: the field is appended, NULL in every feature
AddFieldToAttributesTable(layer, name) ==
    [layer EXCEPT !.fields = Append(@, name),
                  !.feats = [i \in DOMAIN layer.feats |->
                                [layer.feats[i] EXCEPT !.attrs = @ @@ (name :> NULL)]]]

(***************************************************************************)
(* The inputs of a run.                                                    *)
(***************************************************************************)
\* footprint shapes, with their lower left corner at the origin
ShapeKinds == {"dot", "square", "ring"}

Shape(kind) ==
    CASE kind = "dot" -> {<<0, 0>>}
      [] kind = "square" -> Rect(0, 2, 0, 2)
      [] kind = "ring" -> Rect(0, 2, 0, 2) \ {<<1, 1>>}
      [] kind = "hall" -> Rect(0, 10, 0, 10)

Place(kind, x) == {Shift(c, <<x, 0>>) : c \in Shape(kind)}

\* the layer of the footprints ps (a sequence of <<kind, x>>), fid = 1, 2, ..
FootprintLayer(ps) ==
    [fields |-> <<"fid">>, crs |-> "EPSG:25832",
     feats |-> [i \in DOMAIN ps |-> Feature(Place(ps[i][1], ps[i][2]), ("fid" :> i))]]

ExtentAll == [xMin |-> -1, xMax |-> 40, yMin |-> -1, yMax |-> 11]
ExtentLeft == [xMin |-> -1, xMax |-> 1, yMin |-> -1, yMax |-> 11]

Params(ok, ps, out, outBuffer, outCentroids, d, extent) ==
    [INPUT_OK |-> ok, INPUT |-> FootprintLayer(ps), OUTPUT |-> out,
     OUTPUT_BUFFER |-> outBuffer, OUTPUT_CENTROIDS |-> outCentroids,
     BUFFER_VALUE |-> d, EXTENT |-> extent]

Placements(n) == [1..n -> ShapeKinds \X (0..MaxPos)]

\* runs over every small footprint layer: with every buffer value under the
\* extent that holds them all, and with the extent that cuts through them
GeometryInputs ==
    {Params(TRUE, ps, TRUE, TRUE, TRUE, de[1], de[2]) :
        ps \in UNION {Placements(n) : n \in 0..MaxFootprints},
        de \in ((0..MaxD) \X {ExtentAll}) \cup {<<0, ExtentLeft>>}}

\* runs over every combination of usable and unusable source and sinks
ControlInputs ==
    {Params(ok, <<<<"ring", 0>>, <<"dot", 1>>>>, out, ob, oc, d, ExtentAll) :
        ok \in BOOLEAN, out \in BOOLEAN, ob \in BOOLEAN, oc \in BOOLEAN, d \in 0..1}

\* two equal footprints a given gap apart, small (1 wide) or large (11 wide)
TwoApart(kind, gap) ==
    <<<<kind, 0>>, <<kind, SetMax({c[1] : c \in Shape(kind)}) + 1 + gap>>>>

ScenarioInputs ==
    {Params(TRUE, TwoApart(k, gap), TRUE, TRUE, TRUE, 5, ExtentAll) :
        k \in {"dot", "hall"}, gap \in {3, 12}}

Inputs == GeometryInputs \cup ControlInputs \cup ScenarioInputs

(***************************************************************************)
(* The state of one call of MorphBlocks.processAlgorithm.                  *)
(***************************************************************************)
VARIABLES
    parameters,                  \* the parameters the call is made with
    canceled,                    \* the cancel flag of the feedback object
    observed,                    \* what feedback.isCanceled() returned, call by call
    pc,                          \* the position in processAlgorithm
    source, sink, sink_buffer, sink_centroids,
    buffer_value, spatial_extent,
    repaired, clipped, transformed, dissolved_1, buffer_1, buffer_2,
    centroids, centroid_with_buffer_id, transformed_with_buffer_id,
    dissolved_2, dissolved_3, dissolved_4,
    counter_features_output,
    info,                        \* the last "Number of processed blocks" pushed
    result                       \* what the call returned or raised

sinks == <<sink, sink_buffer, sink_centroids>>
args == <<source, buffer_value, spatial_extent>>
early == <<repaired, clipped, transformed, dissolved_1, buffer_1, buffer_2>>
late == <<centroids, centroid_with_buffer_id, transformed_with_buffer_id,
          dissolved_2, dissolved_3, dissolved_4>>
tail == <<counter_features_output, info>>
morph == <<parameters, canceled, observed, pc, sinks, args, early, late, tail, result>>

(***************************************************************************)
(* The state of one call of Modell.processAlgorithm (check_data.py).       *)
(***************************************************************************)
VARIABLES
    modell_parameters,           \* the parameters: layername, rohdaten
    model_feedback,              \* the cancel flag of model_feedback
    step,                        \* the position in Modell.processAlgorithm
    outputs,                     \* the dictionary outputs
    project,                     \* the layers handed to the project, in order
    results                      \* what the call returned

modell == <<modell_parameters, model_feedback, step, outputs, project, results>>

(***************************************************************************)
(* The state of one zrfPlugin object and of the processing registry.       *)
(***************************************************************************)
VARIABLES
    provider,                    \* self.provider
    registry,                    \* the providers the registry holds
    created,                     \* the number of zrfProvider objects made so far
    calls,                       \* the calls made on the plugin, in order
    removed                      \* the arguments removeProvider was given, in order

plugin == <<provider, registry, created, calls, removed>>

vars == <<morph, modell, plugin>>

\* Python's None, where an object is expected
None == 0

NoSink == [created |-> FALSE, fields |-> <<>>, crs |-> "", feats |-> <<>>]

\* parameterAsSink: a sink with the given fields and CRS, or None
ParameterAsSink(given, fields, crs) ==
    IF given THEN [created |-> TRUE, fields |-> fields, crs |-> crs, feats |-> <<>>]
    ELSE NoSink

Pending == [tag |-> "pending", OUTPUT |-> "", OUTPUT_BUFFER |-> "", OUTPUT_CENTROIDS |-> ""]
Returned(t) == [Pending EXCEPT !.tag = t]

\* nothing of MorphBlocks.processAlgorithm has run; the call is made with p
MorphStart(p) ==
    /\ parameters = p
    /\ canceled = FALSE
    /\ observed = <<>>
    /\ pc = <<"start", 0>>
    /\ source = NoLayer
    /\ sink = NoSink /\ sink_buffer = NoSink /\ sink_centroids = NoSink
    /\ buffer_value = 0
    /\ spatial_extent = ExtentAll
    /\ repaired = NoLayer /\ clipped = NoLayer /\ transformed = NoLayer
    /\ dissolved_1 = NoLayer /\ buffer_1 = NoLayer /\ buffer_2 = NoLayer
    /\ centroids = NoLayer /\ centroid_with_buffer_id = NoLayer
    /\ transformed_with_buffer_id = NoLayer
    /\ dissolved_2 = NoLayer /\ dissolved_3 = NoLayer /\ dissolved_4 = NoLayer
    /\ counter_features_output = 0
    /\ info = -1
    /\ result = Pending

\* nothing of Modell.processAlgorithm has run; the call is made with q
ModellStart(q) ==
    /\ modell_parameters = q
    /\ model_feedback = FALSE
    /\ step = <<"run", 1>>
    /\ outputs = <<>>
    /\ project = <<>>
    /\ results = "pending"

\* zrfPlugin.__init__, and a registry that holds no provider of the plugin
PluginStart ==
    /\ provider = None
    /\ registry = {}
    /\ created = 0
    /\ calls = <<>>
    /\ removed = <<>>

\* a call of MorphBlocks.processAlgorithm; the other two programs stand still
Init ==
    /\ \E p \in Inputs : MorphStart(p)
    /\ ModellStart([layername |-> "", rohdaten |-> NoLayer])
    /\ PluginStart

(***************************************************************************)
(* processAlgorithm, up to the first checkpoint.                           *)
(***************************************************************************)
Running == pc[1] \in {"start", "chk", "stage", "write"}

\* the source could not be resolved: QgsProcessingException
InvalidSource ==
    /\ pc = <<"start", 0>>
    /\ ~parameters.INPUT_OK
    /\ pc' = <<"raised", 0>>
    /\ result' = Returned("invalidSourceError")
    /\ UNCHANGED <<modell, plugin, parameters, canceled, observed, sinks, args, early, late, tail>>

\* the three sinks are asked for, then the primary sink is found missing
InvalidSink ==
    /\ pc = <<"start", 0>>
    /\ parameters.INPUT_OK
    /\ ~parameters.OUTPUT
    /\ source' = parameters.INPUT
    /\ sink' = NoSink
    /\ sink_buffer' = ParameterAsSink(parameters.OUTPUT_BUFFER,
                                      parameters.INPUT.fields, parameters.INPUT.crs)
    /\ sink_centroids' = ParameterAsSink(parameters.OUTPUT_CENTROIDS,
                                         parameters.INPUT.fields, parameters.INPUT.crs)
    /\ pc' = <<"raised", 0>>
    /\ result' = Returned("invalidSinkError")
    /\ UNCHANGED <<modell, plugin, parameters, canceled, observed, buffer_value, spatial_extent, early, late, tail>>

\* variant: the primary sink is not looked at
ReadParametersUnchecked ==
    /\ pc = <<"start", 0>>
    /\ parameters.INPUT_OK
    /\ source' = parameters.INPUT
    /\ sink' = ParameterAsSink(parameters.OUTPUT, parameters.INPUT.fields,
                               parameters.INPUT.crs)
    /\ sink_buffer' = ParameterAsSink(parameters.OUTPUT_BUFFER,
                                      parameters.INPUT.fields, parameters.INPUT.crs)
    /\ sink_centroids' = ParameterAsSink(parameters.OUTPUT_CENTROIDS,
                                         parameters.INPUT.fields, parameters.INPUT.crs)
    /\ buffer_value' = parameters.BUFFER_VALUE
    /\ spatial_extent' = parameters.EXTENT
    /\ pc' = <<"chk", 0>>
    /\ UNCHANGED <<modell, plugin, parameters, canceled, observed, early, late, tail, result>>

\* source and primary sink are there: the parameters are read
ReadParameters ==
    /\ pc = <<"start", 0>>
    /\ parameters.INPUT_OK
    /\ parameters.OUTPUT
    /\ source' = parameters.INPUT
    /\ sink' = ParameterAsSink(TRUE, parameters.INPUT.fields, parameters.INPUT.crs)
    /\ sink_buffer' = ParameterAsSink(parameters.OUTPUT_BUFFER,
                                      parameters.INPUT.fields, parameters.INPUT.crs)
    /\ sink_centroids' = ParameterAsSink(parameters.OUTPUT_CENTROIDS,
                                         parameters.INPUT.fields, parameters.INPUT.crs)
    /\ buffer_value' = parameters.BUFFER_VALUE
    /\ spatial_extent' = parameters.EXTENT
    /\ pc' = <<"chk", 0>>
    /\ UNCHANGED <<modell, plugin, parameters, canceled, observed, early, late, tail, result>>

\* the user or the host asks for cancellation
Cancel ==
    /\ Running
    /\ ~canceled
    /\ canceled' = TRUE
    /\ UNCHANGED <<modell, plugin, parameters, observed, pc, sinks, args, early, late, tail, result>>

\* variant: no checkpoint between the last stage and the sink
CheckpointNotBeforeSink ==
    /\ pc[1] = "chk"
    /\ IF pc[2] = 12
       THEN /\ pc' = <<"write", 0>>
            /\ UNCHANGED <<observed, result>>
       ELSE /\ observed' = Append(observed, canceled)
            /\ IF canceled
               THEN /\ pc' = <<"canceled", pc[2]>>
                    /\ result' = Returned("None")
               ELSE /\ pc' = <<"stage", pc[2] + 1>>
                    /\ UNCHANGED result
    /\ UNCHANGED <<modell, plugin, parameters, canceled, sinks, args, early, late, tail>>

\* if feedback.isCanceled(): return -- checkpoint k follows stage k,
\* checkpoint 0 precedes the first stage
Checkpoint ==
    /\ pc[1] = "chk"
    /\ observed' = Append(observed, canceled)
    /\ IF canceled
       THEN /\ pc' = <<"canceled", pc[2]>>
            /\ result' = Returned("None")
       ELSE /\ pc' = IF pc[2] = 12 THEN <<"write", 0>> ELSE <<"stage", pc[2] + 1>>
            /\ UNCHANGED result
    /\ UNCHANGED <<modell, plugin, parameters, canceled, sinks, args, early, late, tail>>

(***************************************************************************)
(* The twelve stages.  Each is one processing.run(..., context=context,    *)
(* feedback=feedback): the algorithm that runs is handed the feedback      *)
(* object, and the script reads the flag itself only at the checkpoints.   *)
(* With the flag down an algorithm returns its whole output.  With the     *)
(* flag up (pc is at the stage and canceled holds: the request came while  *)
(* the stage was running) what it returns is the engine's choice: the      *)
(* whole output, or the features written before it stopped.                *)
(***************************************************************************)
CutShort(layer) == {[layer EXCEPT !.feats = SubSeq(@, 1, n)] : n \in 0..Len(layer.feats)}

Outcomes(layer) == IF canceled THEN CutShort(layer) ELSE {layer}

GeometryRepair ==
    /\ pc = <<"stage", 1>>
    /\ repaired' \in Outcomes(FixGeometries(source))
    /\ pc' = <<"chk", 1>>
    /\ UNCHANGED <<modell, plugin, parameters, canceled, observed, sinks, args, clipped, transformed,
                   dissolved_1, buffer_1, buffer_2, late, tail, result>>

ClipToExtent ==
    /\ pc = <<"stage", 2>>
    /\ clipped' \in Outcomes(ExtractByExtent(repaired, spatial_extent))
    /\ pc' = <<"chk", 2>>
    /\ UNCHANGED <<modell, plugin, parameters, canceled, observed, sinks, args, repaired, transformed,
                   dissolved_1, buffer_1, buffer_2, late, tail, result>>

ProjectCRS ==
    /\ pc = <<"stage", 3>>
    /\ transformed' \in Outcomes(ReprojectLayer(clipped, "EPSG:3857"))
    /\ pc' = <<"chk", 3>>
    /\ UNCHANGED <<modell, plugin, parameters, canceled, observed, sinks, args, repaired, clipped,
                   dissolved_1, buffer_1, buffer_2, late, tail, result>>

DissolveFootprints ==
    /\ pc = <<"stage", 4>>
    /\ dissolved_1' \in Outcomes(DissolveAll(transformed))
    /\ pc' = <<"chk", 4>>
    /\ UNCHANGED <<modell, plugin, parameters, canceled, observed, sinks, args, repaired, clipped,
                   transformed, buffer_1, buffer_2, late, tail, result>>

BufferNegative ==
    /\ pc = <<"stage", 5>>
    /\ buffer_1' \in Outcomes(Buffer(dissolved_1, -buffer_value))
    /\ pc' = <<"chk", 5>>
    /\ UNCHANGED <<modell, plugin, parameters, canceled, observed, sinks, args, repaired, clipped,
                   transformed, dissolved_1, buffer_2, late, tail, result>>

BufferPositive ==
    /\ pc = <<"stage", 6>>
    /\ buffer_2' \in Outcomes(Buffer(buffer_1, buffer_value))
    /\ pc' = <<"chk", 6>>
    /\ UNCHANGED <<modell, plugin, parameters, canceled, observed, sinks, args, repaired, clipped,
                   transformed, dissolved_1, buffer_1, late, tail, result>>

CreateCentroid ==
    /\ pc = <<"stage", 7>>
    /\ centroids' \in Outcomes(PointOnSurface(transformed))
    /\ pc' = <<"chk", 7>>
    /\ UNCHANGED <<modell, plugin, parameters, canceled, observed, sinks, args, early, centroid_with_buffer_id,
                   transformed_with_buffer_id, dissolved_2, dissolved_3, dissolved_4,
                   tail, result>>

JoinBufferIdToCentroid ==
    /\ pc = <<"stage", 8>>
    /\ centroid_with_buffer_id' \in
           Outcomes(JoinAttributesByLocation(centroids, buffer_2, "fid", "buffer_fid"))
    /\ pc' = <<"chk", 8>>
    /\ UNCHANGED <<modell, plugin, parameters, canceled, observed, sinks, args, early, centroids,
                   transformed_with_buffer_id, dissolved_2, dissolved_3, dissolved_4,
                   tail, result>>

JoinBufferIdToFootprint ==
    /\ pc = <<"stage", 9>>
    /\ transformed_with_buffer_id' \in
           Outcomes(JoinAttributesTable(transformed, "fid", centroid_with_buffer_id,
                                        "fid", "buffer_fid"))
    /\ pc' = <<"chk", 9>>
    /\ UNCHANGED <<modell, plugin, parameters, canceled, observed, sinks, args, early, centroids,
                   centroid_with_buffer_id, dissolved_2, dissolved_3, dissolved_4,
                   tail, result>>

DissolveByBufferId ==
    /\ pc = <<"stage", 10>>
    /\ dissolved_2' \in Outcomes(DissolveBy(transformed_with_buffer_id, "buffer_fid"))
    /\ pc' = <<"chk", 10>>
    /\ UNCHANGED <<modell, plugin, parameters, canceled, observed, sinks, args, early, centroids,
                   centroid_with_buffer_id, transformed_with_buffer_id, dissolved_3,
                   dissolved_4, tail, result>>

AddHolesCount ==
    /\ pc = <<"stage", 11>>
    /\ dissolved_3' \in Outcomes(AddFieldToAttributesTable(dissolved_2, "holes_count"))
    /\ pc' = <<"chk", 11>>
    /\ UNCHANGED <<modell, plugin, parameters, canceled, observed, sinks, args, early, centroids,
                   centroid_with_buffer_id, transformed_with_buffer_id, dissolved_2,
                   dissolved_4, tail, result>>

\* The step announced as "add column holes_total_area" asks for a field
\* named holes_count again, which dissolved_3 already has.  What the engine
\* does with a field name that exists depends on its version: it returns
\* the layer with its fields as they were ...
AddHolesTotalArea ==
    /\ pc = <<"stage", 12>>
    /\ dissolved_4' \in Outcomes(IF "holes_count" \in Range(dissolved_3.fields)
                               THEN dissolved_3
                               ELSE AddFieldToAttributesTable(dissolved_3, "holes_count"))
    /\ pc' = <<"chk", 12>>
    /\ UNCHANGED <<modell, plugin, parameters, canceled, observed, sinks, args, early, centroids,
                   centroid_with_buffer_id, transformed_with_buffer_id, dissolved_2,
                   dissolved_3, tail, result>>

\* ... or it refuses the duplicate name, and the exception leaves the script
AddHolesTotalAreaRefused ==
    /\ pc = <<"stage", 12>>
    /\ "holes_count" \in Range(dissolved_3.fields)
    /\ pc' = <<"raised", 12>>
    /\ result' = Returned("fieldExistsError")
    /\ UNCHANGED <<modell, plugin, parameters, canceled, observed, sinks, args, early, late, tail>>

(***************************************************************************)
(* Loading the result into the output sink, and the return.                *)
(***************************************************************************)
\* one turn of the loop over dissolved_4.getFeatures(); pc[2] features are
\* already in the sink
AddFeature ==
    /\ pc[1] = "write"
    /\ pc[2] < Len(dissolved_4.feats)
    /\ counter_features_output' = counter_features_output + counter_features_output
    /\ sink' = [sink EXCEPT !.feats = Append(@, dissolved_4.feats[pc[2] + 1])]
    /\ pc' = <<"write", pc[2] + 1>>
    /\ UNCHANGED <<modell, plugin, parameters, canceled, observed, sink_buffer, sink_centroids, args, early,
                   late, info, result>>

\* the loop is over: the count is pushed and the three ids are returned
SinkId(s, id) == IF s.created THEN id ELSE ""

\* variant: the loop is left as soon as the cancel flag is up (the break
\* that the loop has as a comment)
ReturnOnCancel ==
    /\ pc[1] = "write"
    /\ pc[2] = Len(dissolved_4.feats) \/ canceled
    /\ info' = counter_features_output
    /\ result' = [tag |-> "dict",
                  OUTPUT |-> SinkId(sink, "dest_id"),
                  OUTPUT_BUFFER |-> SinkId(sink_buffer, "buffer_id"),
                  OUTPUT_CENTROIDS |-> SinkId(sink_centroids, "centroids_id")]
    /\ pc' = <<"done", 0>>
    /\ UNCHANGED <<modell, plugin, parameters, canceled, observed, sinks, args, early, late,
                   counter_features_output>>

Return ==
    /\ pc[1] = "write"
    /\ pc[2] = Len(dissolved_4.feats)
    /\ info' = counter_features_output
    /\ result' = [tag |-> "dict",
                  OUTPUT |-> SinkId(sink, "dest_id"),
                  OUTPUT_BUFFER |-> SinkId(sink_buffer, "buffer_id"),
                  OUTPUT_CENTROIDS |-> SinkId(sink_centroids, "centroids_id")]
    /\ pc' = <<"done", 0>>
    /\ UNCHANGED <<modell, plugin, parameters, canceled, observed, sinks, args, early, late,
                   counter_features_output>>

Next ==
    \/ InvalidSource \/ InvalidSink \/ ReadParameters
    \/ Cancel \/ Checkpoint
    \/ GeometryRepair \/ ClipToExtent \/ ProjectCRS \/ DissolveFootprints
    \/ BufferNegative \/ BufferPositive \/ CreateCentroid
    \/ JoinBufferIdToCentroid \/ JoinBufferIdToFootprint \/ DissolveByBufferId
    \/ AddHolesCount \/ AddHolesTotalArea \/ AddHolesTotalAreaRefused
    \/ AddFeature \/ Return

Spec == Init /\ [][Next]_vars

(***************************************************************************)
(* Modell.processAlgorithm (check_data.py): seven child algorithms, a      *)
(* checkpoint after each of the first six.                                 *)
(***************************************************************************)
\* native:createspatialindex: the index is built on the input layer, and
\* the input layer is the output
CreateSpatialIndex(layer) == layer

\* native:forcerhr: the rings of every polygon are put in clockwise order;
\* a cell set has no ring order, the cells stay as they are
Clockwise(g) == g

ForceRHR(layer) ==
    [layer EXCEPT !.feats =
        [i \in DOMAIN layer.feats |-> [layer.feats[i] EXCEPT !.geom = Clockwise(@)]]]

\* qgis:convertgeometrytype with TYPE 4: polygons are returned as polygons
AsPolygons(g) == g

ConvertGeometryType(layer) ==
    [layer EXCEPT !.feats =
        [i \in DOMAIN layer.feats |-> [layer.feats[i] EXCEPT !.geom = AsPolygons(@)]]]

\* where a CRS puts its origin on the x axis, in cells
FalseEasting(crs) == IF crs = "EPSG:25832" THEN 5 ELSE 0

\* native:reprojectlayer with OPERATION None: the coordinates are taken
\* from the layer's CRS to the target CRS
Transform(g, from, to) == {Shift(c, <<FalseEasting(to) - FalseEasting(from), 0>>) : c \in g}

ReprojectTo(layer, target) ==
    [layer EXCEPT !.crs = target,
                  !.feats = [i \in DOMAIN layer.feats |->
                                [layer.feats[i] EXCEPT !.geom = Transform(@, layer.crs, target)]]]

\* a child algorithm is handed the multi-step feedback, which passes the
\* cancel flag of model_feedback on
ChildOutcomes(layer) == IF model_feedback THEN CutShort(layer) ELSE {layer}

\* outputs[key] = value
Put(dict, key, value) == (key :> value) @@ dict

\* layers of raw data: polygons in either of two CRSs
RawLayers ==
    {[FootprintLayer(ps) EXCEPT !.crs = c] :
        ps \in UNION {Placements(n) : n \in 0..MaxFootprints},
        c \in {"EPSG:25832", "EPSG:3857"}}

LayerNames == {"blocks", "test"}

ModellInputs == [layername : LayerNames, rohdaten : RawLayers]

ModellRunning == step[1] \in {"run", "chk"}

RumlichenIndexErzeugen ==
    /\ step = <<"run", 1>>
    /\ outputs' = Put(outputs, "RumlichenIndexErzeugen",
                      CreateSpatialIndex(modell_parameters.rohdaten))
    /\ step' = <<"chk", 1>>
    /\ UNCHANGED <<morph, plugin, modell_parameters, model_feedback, project, results>>

GeometrienReparieren ==
    /\ step = <<"run", 2>>
    /\ \E out \in ChildOutcomes(FixGeometries(outputs["RumlichenIndexErzeugen"])) :
          outputs' = Put(outputs, "GeometrienReparieren", out)
    /\ step' = <<"chk", 2>>
    /\ UNCHANGED <<morph, plugin, modell_parameters, model_feedback, project, results>>

RechterhandregelErzwingen ==
    /\ step = <<"run", 3>>
    /\ \E out \in ChildOutcomes(ForceRHR(outputs["GeometrienReparieren"])) :
          outputs' = Put(outputs, "RechterhandregelErzwingen", out)
    /\ step' = <<"chk", 3>>
    /\ UNCHANGED <<morph, plugin, modell_parameters, model_feedback, project, results>>

\* native:loadlayer: the layer is handed to the project under NAME
LoadLayer(layer, name) == Append(project, [name |-> name, layer |-> layer])

LayerInProjektLadenTest ==
    /\ step = <<"run", 4>>
    /\ project' = LoadLayer(outputs["RechterhandregelErzwingen"], "test")
    /\ outputs' = Put(outputs, "LayerInProjektLaden", outputs["RechterhandregelErzwingen"])
    /\ step' = <<"chk", 4>>
    /\ UNCHANGED <<morph, plugin, modell_parameters, model_feedback, results>>

GeometrietypUmwandeln ==
    /\ step = <<"run", 5>>
    /\ \E out \in ChildOutcomes(ConvertGeometryType(outputs["RechterhandregelErzwingen"])) :
          outputs' = Put(outputs, "GeometrietypUmwandeln", out)
    /\ step' = <<"chk", 5>>
    /\ UNCHANGED <<morph, plugin, modell_parameters, model_feedback, project, results>>

LayerReprojizieren ==
    /\ step = <<"run", 6>>
    /\ \E out \in ChildOutcomes(ReprojectTo(outputs["GeometrietypUmwandeln"], "EPSG:25832")) :
          outputs' = Put(outputs, "LayerReprojizieren", out)
    /\ step' = <<"chk", 6>>
    /\ UNCHANGED <<morph, plugin, modell_parameters, model_feedback, project, results>>

\* the last child algorithm, and return results (the dictionary that was
\* made empty and never written to)
LayerInProjektLaden ==
    /\ step = <<"run", 7>>
    /\ project' = LoadLayer(outputs["LayerReprojizieren"], modell_parameters.layername)
    /\ outputs' = Put(outputs, "LayerInProjektLaden", outputs["LayerReprojizieren"])
    /\ results' = "{}"
    /\ step' = <<"returned", 7>>
    /\ UNCHANGED <<morph, plugin, modell_parameters, model_feedback>>

\* feedback.setCurrentStep(k); if feedback.isCanceled(): return {}
ModellCheckpoint ==
    /\ step[1] = "chk"
    /\ IF model_feedback
       THEN /\ step' = <<"canceled", step[2]>>
            /\ results' = "{}"
       ELSE /\ step' = <<"run", step[2] + 1>>
            /\ UNCHANGED results
    /\ UNCHANGED <<morph, plugin, modell_parameters, model_feedback, outputs, project>>

\* the user or the host asks for cancellation
ModellCancel ==
    /\ ModellRunning
    /\ ~model_feedback
    /\ model_feedback' = TRUE
    /\ UNCHANGED <<morph, plugin, modell_parameters, step, outputs, project, results>>

NextModell ==
    \/ RumlichenIndexErzeugen \/ GeometrienReparieren \/ RechterhandregelErzwingen
    \/ LayerInProjektLadenTest \/ GeometrietypUmwandeln \/ LayerReprojizieren
    \/ LayerInProjektLaden \/ ModellCheckpoint \/ ModellCancel

\* a call of Modell.processAlgorithm; the other two programs stand still
InitModell ==
    /\ MorphStart(Params(TRUE, <<>>, TRUE, TRUE, TRUE, 0, ExtentAll))
    /\ \E q \in ModellInputs : ModellStart(q)
    /\ PluginStart

SpecModell == InitModell /\ [][NextModell]_vars

(***************************************************************************)
(* zrfPlugin (morphology.py): initGui and unload, called by the host on    *)
(* one plugin object, and the processing registry they act on.             *)
(***************************************************************************)
\* processingRegistry().addProvider(p): the provider is held from then on.
\* Every zrfProvider answers to the same id, and what a registry does with
\* a second provider of an id it already holds is its own matter: it takes
\* it, or it turns it down.
AddProvider(p) == IF registry = {} THEN {registry \cup {p}} ELSE {registry \cup {p}, registry}

\* processingRegistry().removeProvider(p): a provider that is held is held
\* no more; None, or a provider that is not held, changes nothing
RemoveProvider(p) == registry \ {p}

\* initGui calls initProcessing: a new zrfProvider is made, kept in
\* self.provider, and given to the registry
InitGui ==
    /\ Len(calls) < MaxCalls
    /\ created' = created + 1
    /\ provider' = created + 1
    /\ registry' \in AddProvider(created + 1)
    /\ calls' = Append(calls, "initGui")
    /\ UNCHANGED <<morph, modell, removed>>

\* variant: unload leaves the registry as it is
UnloadKeeps ==
    /\ Len(calls) < MaxCalls
    /\ removed' = Append(removed, provider)
    /\ calls' = Append(calls, "unload")
    /\ UNCHANGED <<morph, modell, provider, registry, created>>

\* unload gives self.provider, whatever it is, to removeProvider
Unload ==
    /\ Len(calls) < MaxCalls
    /\ registry' = RemoveProvider(provider)
    /\ removed' = Append(removed, provider)
    /\ calls' = Append(calls, "unload")
    /\ UNCHANGED <<morph, modell, provider, created>>

NextPlugin == InitGui \/ Unload

\* the life of one plugin object; the other two programs stand still
InitPlugin ==
    /\ MorphStart(Params(TRUE, <<>>, TRUE, TRUE, TRUE, 0, ExtentAll))
    /\ ModellStart([layername |-> "", rohdaten |-> NoLayer])
    /\ PluginStart

SpecPlugin == InitPlugin /\ [][NextPlugin]_vars

(***************************************************************************)
(* Notions the properties are stated in.                                   *)
(***************************************************************************)
Done == pc = <<"done", 0>>

\* the number of stages that have returned
StagesReturned ==
    CASE pc[1] = "start" -> 0
      [] pc[1] = "chk" -> pc[2]
      [] pc[1] = "stage" -> pc[2] - 1
      [] pc[1] = "canceled" -> pc[2]
      [] pc[1] = "raised" -> IF pc[2] = 0 THEN 0 ELSE pc[2] - 1
      [] OTHER -> 12

\* checkpoint k read the cancel flag as down: stage k has returned, and the
\* flag was down all the while it ran
Passed(k) == Len(observed) > k /\ ~observed[k + 1]

\* the footprints of the input that intersect the extent
Retained ==
    {f \in Range(parameters.INPUT.feats) : IntersectsExtent(f.geom, parameters.EXTENT)}

\* the cluster ids the tagged layer gives the footprint f
TagsOf(tagged, f) ==
    {r.attrs["buffer_fid"] : r \in {q \in Range(tagged.feats) : q.attrs["fid"] = f.attrs["fid"]}}

\* the footprints a block stands for: those tagged with the block's cluster id
Members(tagged, b) ==
    {f \in Retained : b.attrs["buffer_fid"] \in TagsOf(tagged, f)}

\* the partition of the retained footprints (as sets of fids) a tagged layer
\* and its dissolved blocks stand for
PartitionOf(tagged, blocks) ==
    {{f.attrs["fid"] : f \in Members(tagged, b)} : b \in Range(blocks)}

\* the blocks of the output: the k-th feature given to the sink is the k-th
\* feature of dissolved_4, whose cluster id says which footprints it stands for
BlockMembers(k) == Members(transformed_with_buffer_id, dissolved_4.feats[k])

OutputPartition == {{f.attrs["fid"] : f \in BlockMembers(k)} : k \in DOMAIN sink.feats}

\* two cells of X in the same connected component of X
SameComponent(X, a, b) == b \in Grow(X, {a})

\* the empty space between two geometries, in cells
Abs(n) == IF n < 0 THEN -n ELSE n
CellDist(a, b) == IF Abs(a[1] - b[1]) > Abs(a[2] - b[2]) THEN Abs(a[1] - b[1])
                  ELSE Abs(a[2] - b[2])
Gap(g, h) == SetMin({CellDist(a, b) : a \in g, b \in h}) - 1

(***************************************************************************)
(* C1: a completed run partitions the retained footprints into blocks:     *)
(* every retained footprint is a member of exactly one block of the        *)
(* output, every block is the union of its non-empty set of members, and   *)
(* the blocks together cover exactly what the retained footprints cover.   *)
(***************************************************************************)
C1_BlocksPartitionFootprints ==
    Done =>
        LET blocks == sink.feats
        IN  /\ \A f \in Retained :
                  Cardinality({k \in DOMAIN blocks : f \in BlockMembers(k)}) = 1
            /\ \A k \in DOMAIN blocks :
                  /\ BlockMembers(k) # {}
                  /\ blocks[k].geom = UNION {f.geom : f \in BlockMembers(k)}
            /\ UNION {b.geom : b \in Range(blocks)} = UNION {f.geom : f \in Retained}

C1_Witness ==
    /\ Done
    /\ Len(sink.feats) = 2
    /\ Cardinality(Retained) >= 2
    /\ buffer_value > 0

(***************************************************************************)
(* C2: every connected component of the eroded-then-dilated coverage is a  *)
(* cluster of its own: two footprints whose points lie in the coverage     *)
(* have the same cluster id exactly when the points lie in one component;  *)
(* and with d = 5 two footprints 3 apart end in one block, 12 apart in two *)
(* different blocks.                                                       *)
(***************************************************************************)
C2_ComponentsAreClusters ==
    Done =>
        LET coverage == UNION {b.geom : b \in Range(buffer_2.feats)}
            pts == centroid_with_buffer_id.feats
            fps == transformed.feats
            parts == OutputPartition
        IN  /\ \A i, j \in DOMAIN pts :
                  (pts[i].geom \subseteq coverage /\ pts[j].geom \subseteq coverage)
                  => ((pts[i].attrs["buffer_fid"] = pts[j].attrs["buffer_fid"])
                      <=> (\E a \in pts[i].geom : \E b \in pts[j].geom :
                              SameComponent(coverage, a, b)))
            /\ (buffer_value = 5 /\ Len(fps) = 2 /\ Gap(fps[1].geom, fps[2].geom) = 3)
                  => Cardinality(parts) = 1
            /\ (buffer_value = 5 /\ Len(fps) = 2 /\ Gap(fps[1].geom, fps[2].geom) = 12)
                  => Cardinality(parts) = 2

(***************************************************************************)
(* C3: with d = 0 two retained footprints are in the same block exactly    *)
(* when they lie in the same connected component of the union of all       *)
(* retained footprints.                                                    *)
(***************************************************************************)
C3_ZeroDistanceGivesComponents ==
    (Done /\ buffer_value = 0) =>
        LET coverage == UNION {f.geom : f \in Retained}
            parts == OutputPartition
        IN  \A f, g \in Retained :
                (\E P \in parts : f.attrs["fid"] \in P /\ g.attrs["fid"] \in P)
                <=> (\E a \in f.geom : \E b \in g.geom : SameComponent(coverage, a, b))

(***************************************************************************)
(* C4: the partition a run produces with its buffer value d2 is a          *)
(* coarsening of the partition the same footprints get with any smaller    *)
(* d1: every block at d1 lies within one block at d2.                      *)
(***************************************************************************)
\* the partition the stages 4 to 10 produce from the layer with the value d
BlocksAt(layer, d) ==
    LET b == Buffer(Buffer(DissolveAll(layer), -d), d)
        c == JoinAttributesByLocation(PointOnSurface(layer), b, "fid", "buffer_fid")
        t == JoinAttributesTable(layer, "fid", c, "fid", "buffer_fid")
    IN  PartitionOf(t, DissolveBy(t, "buffer_fid").feats)

C4_LargerDistanceCoarsens ==
    Done =>
        LET parts2 == OutputPartition
        IN  \A d1 \in 0..(buffer_value - 1) :
                \A P1 \in BlocksAt(transformed, d1) :
                    Cardinality({P2 \in parts2 : P1 \subseteq P2}) = 1

(***************************************************************************)
(* C5: the extent step, run to its end, keeps exactly the repaired         *)
(* footprints that intersect the extent, each once and as it was (geometry *)
(* and attributes untouched), so the kept footprints are a subset of the   *)
(* repaired ones and a footprint outside the extent is a member of no      *)
(* block.                                                                  *)
(***************************************************************************)
C5_ExtentIsMembershipFilter ==
    /\ Passed(2) =>
          /\ \A f \in Range(repaired.feats) :
                (f \in Range(clipped.feats)) <=> IntersectsExtent(f.geom, spatial_extent)
          /\ Range(clipped.feats) \subseteq Range(repaired.feats)
          /\ Cardinality(Range(clipped.feats)) = Len(clipped.feats)
    /\ Done =>
          \A f \in Range(source.feats) :
              ~IntersectsExtent(f.geom, spatial_extent)
              => \A k \in DOMAIN sink.feats :
                    /\ f.attrs["fid"] \notin {m.attrs["fid"] : m \in BlockMembers(k)}
                    /\ sink.feats[k].geom = UNION {m.geom : m \in BlockMembers(k)}

C5_Witness ==
    /\ Done
    /\ \E f \in Range(source.feats) : ~IntersectsExtent(f.geom, spatial_extent)
    /\ \E f \in Range(clipped.feats) :
          \E c \in f.geom : ~IntersectsExtent({c}, spatial_extent)
    /\ sink.feats # <<>>

(***************************************************************************)
(* C6: every feature written to the primary output carries holes_count,    *)
(* the number of interior rings of its geometry, and holes_total_area, the *)
(* summed area of those rings, and the output schema is the input schema   *)
(* plus these two fields.                                                  *)
(***************************************************************************)
C6_HoleStatistics ==
    Done =>
        /\ \A b \in Range(sink.feats) :
              /\ "holes_count" \in DOMAIN b.attrs
              /\ b.attrs["holes_count"] = Cardinality(InteriorRings(b.geom))
              /\ "holes_total_area" \in DOMAIN b.attrs
              /\ b.attrs["holes_total_area"] = SumCard(InteriorRings(b.geom))
        /\ sink.fields = source.fields \o <<"holes_count", "holes_total_area">>

(***************************************************************************)
(* C7: a checkpoint that reads the cancel flag as true ends the run there: *)
(* the call returns None (no exception, no output id), no later stage has  *)
(* produced a layer, nothing follows, and the sink holds no feature.  The  *)
(* sink holds a feature only after all 13 checkpoints read the flag false. *)
(***************************************************************************)
StageOutputs ==
    <<repaired, clipped, transformed, dissolved_1, buffer_1, buffer_2, centroids,
      centroid_with_buffer_id, transformed_with_buffer_id, dissolved_2, dissolved_3,
      dissolved_4>>

EndedByCancel ==
    /\ pc[1] = "canceled"
    /\ result = Returned("None")
    /\ sink.feats = <<>>
    /\ \A k \in 1..12 : k > pc[2] => StageOutputs[k] = NoLayer

C7_CancelEndsRunEmpty ==
    /\ [](pc[1] = "chk" => pc[2] \in 0..12 /\ Len(observed) = pc[2])
    /\ []((observed # <<>> /\ observed[Len(observed)]) => EndedByCancel)
    /\ [](pc[1] = "canceled" => observed[Len(observed)] /\ Len(observed) = pc[2] + 1)
    /\ [][pc[1] = "canceled" => FALSE]_vars
    /\ [](sink.feats # <<>> => observed = [k \in 1..13 |-> FALSE])

C7_Witness ==
    /\ pc = <<"canceled", 12>>
    /\ dissolved_4.feats # <<>>
    /\ sink.feats = <<>>

(***************************************************************************)
(* C8: without a source, or without a primary sink, the call raises at     *)
(* once: no stage has run and no feature is written; with both, a missing  *)
(* buffer or centroid sink raises nothing.                                 *)
(***************************************************************************)
NothingRun ==
    /\ \A k \in 1..12 : StageOutputs[k] = NoLayer
    /\ sink.feats = <<>> /\ sink_buffer.feats = <<>> /\ sink_centroids.feats = <<>>
    /\ observed = <<>>

C8_InvalidInputAborts ==
    /\ ~parameters.INPUT_OK =>
          /\ pc \in {<<"start", 0>>, <<"raised", 0>>}
          /\ pc = <<"raised", 0>> => result.tag = "invalidSourceError"
          /\ NothingRun
    /\ (parameters.INPUT_OK /\ ~parameters.OUTPUT) =>
          /\ pc \in {<<"start", 0>>, <<"raised", 0>>}
          /\ pc = <<"raised", 0>> => result.tag = "invalidSinkError"
          /\ NothingRun
    /\ (parameters.INPUT_OK /\ parameters.OUTPUT) =>
          /\ result.tag \notin {"invalidSourceError", "invalidSinkError"}
          /\ pc # <<"raised", 0>>

C8_Witness ==
    /\ pc = <<"raised", 0>>
    /\ result.tag = "invalidSinkError"
    /\ parameters.OUTPUT_BUFFER /\ ~parameters.OUTPUT_CENTROIDS

(***************************************************************************)
(* C9: on a completed run the buffer sink, when given, holds the           *)
(* eroded-then-dilated polygons and the centroid sink, when given, holds   *)
(* one point per retained footprint with its cluster id, and the ids       *)
(* returned for them name these sinks.                                     *)
(***************************************************************************)
Geoms(feats) == [i \in DOMAIN feats |-> feats[i].geom]

C9_DiagnosticLayersDelivered ==
    Done =>
        /\ parameters.OUTPUT_BUFFER =>
              /\ result.OUTPUT_BUFFER = "buffer_id"
              /\ sink_buffer.created
              /\ Geoms(sink_buffer.feats) = Geoms(buffer_2.feats)
        /\ parameters.OUTPUT_CENTROIDS =>
              /\ result.OUTPUT_CENTROIDS = "centroids_id"
              /\ sink_centroids.created
              /\ sink_centroids.feats = centroid_with_buffer_id.feats
              /\ Len(sink_centroids.feats) = Cardinality(Retained)

(***************************************************************************)
(* C10: after the two joins, run to their end, every retained footprint is *)
(* in the tagged layer exactly once, with its own geometry and one cluster *)
(* id: the id of the first buffer polygon its point (a point of the        *)
(* footprint) meets, or NULL when it meets none; and it would be there     *)
(* once even if the spatial join gave several rows for its point.          *)
(***************************************************************************)
\* the id of the first feature of the join layer that the point meets
FirstMatch(point, join) ==
    LET hits == {j \in DOMAIN join.feats : Intersects(point, join.feats[j].geom)}
    IN  IF hits = {} THEN NULL ELSE join.feats[SetMin(hits)].attrs["fid"]

\* a join layer in which every polygon is there twice
Twice(layer) == [layer EXCEPT !.feats = @ \o @]

C10_OneRowPerFootprint ==
    Passed(9) =>
        LET tagged == transformed_with_buffer_id.feats
            fps == transformed.feats
            many == JoinAttributesByLocation(centroids, Twice(buffer_2), "fid", "buffer_fid")
            again == JoinAttributesTable(transformed, "fid", many, "fid", "buffer_fid")
        IN  /\ {f.attrs["fid"] : f \in Range(fps)} = {f.attrs["fid"] : f \in Retained}
            /\ Len(tagged) = Cardinality(Retained)
            /\ \A i \in DOMAIN tagged :
                  /\ tagged[i].geom = fps[i].geom
                  /\ tagged[i].attrs["fid"] = fps[i].attrs["fid"]
                  /\ centroids.feats[i].geom \subseteq fps[i].geom
                  /\ tagged[i].attrs["buffer_fid"] = FirstMatch(centroids.feats[i].geom, buffer_2)
            /\ again = transformed_with_buffer_id

C10_Witness ==
    /\ Passed(9)
    /\ \E f, g \in Range(transformed_with_buffer_id.feats) :
          f.attrs["buffer_fid"] = NULL /\ g.attrs["buffer_fid"] # NULL
    /\ Len(JoinAttributesByLocation(centroids, Twice(buffer_2), "fid", "buffer_fid").feats)
          > Len(centroids.feats)

(***************************************************************************)
(* C11: unclustered footprints are not dropped: on a completed run, a      *)
(* retained footprint whose representative point meets no cluster polygon  *)
(* has its row, with a NULL cluster id, in the output of the spatial join  *)
(* and in the output of the attribute join, and all such footprints        *)
(* together are exactly one block of the output, the one with the NULL id. *)
(***************************************************************************)
Unclustered ==
    {f \in Retained :
        \A b \in Range(buffer_2.feats) : ~Intersects(PointOnSurfaceGeom(f.geom), b.geom)}

NullBlocks == {k \in DOMAIN sink.feats : dissolved_4.feats[k].attrs["buffer_fid"] = NULL}

C11_UnclusteredKept ==
    Done =>
        /\ \A f \in Unclustered :
              /\ TagsOf(centroid_with_buffer_id, f) = {NULL}
              /\ TagsOf(transformed_with_buffer_id, f) = {NULL}
        /\ Unclustered # {} =>
              /\ Cardinality(NullBlocks) = 1
              /\ \A k \in NullBlocks :
                    /\ BlockMembers(k) = Unclustered
                    /\ sink.feats[k].geom = UNION {f.geom : f \in Unclustered}
        /\ Unclustered = {} => NullBlocks = {}

\* two footprints, both eroded away, end as one block with the NULL id
C11_Witness ==
    /\ Done
    /\ buffer_value > 0
    /\ Cardinality(Unclustered) = 2
    /\ Cardinality(NullBlocks) = 1


(***************************************************************************)
(* C12, as the claim has it: the pipeline is linear and the cancel flag is *)
(* read only between stages, so that a stage, once started, is never       *)
(* interrupted: it returns the whole output of its algorithm even when     *)
(* cancellation is asked for while it runs.                                *)
(***************************************************************************)
\* what stage k returns when its algorithm runs to its end
StageResult(k) ==
    CASE k = 1 -> FixGeometries(source)
      [] k = 2 -> ExtractByExtent(repaired, spatial_extent)
      [] k = 3 -> ReprojectLayer(clipped, "EPSG:3857")
      [] k = 4 -> DissolveAll(transformed)
      [] k = 5 -> Buffer(dissolved_1, -buffer_value)
      [] k = 6 -> Buffer(buffer_1, buffer_value)
      [] k = 7 -> PointOnSurface(transformed)
      [] k = 8 -> JoinAttributesByLocation(centroids, buffer_2, "fid", "buffer_fid")
      [] k = 9 -> JoinAttributesTable(transformed, "fid", centroid_with_buffer_id, "fid",
                                      "buffer_fid")
      [] k = 10 -> DissolveBy(transformed_with_buffer_id, "buffer_fid")
      [] k = 11 -> AddFieldToAttributesTable(dissolved_2, "holes_count")
      [] OTHER -> dissolved_3

\* a step that starts stage k: the checkpoint before it lets the run go on
StartsStage == pc' # pc /\ pc'[1] = "stage"

\* a step in which the running stage returns to the script
StageReturns == pc[1] = "stage" /\ pc'[1] = "chk"

\* the stages start in their order, each after the one before it returned
\* and the checkpoint between them read the flag as down; no stage starts
\* twice, because the checkpoints read so far are never forgotten
LinearOrder ==
    /\ Len(observed') >= Len(observed)
    /\ StartsStage =>
          /\ pc = <<"chk", pc'[2] - 1>>
          /\ pc'[2] \in 1..12
          /\ Len(observed) = pc'[2] - 1
          /\ ~canceled
          /\ observed' = Append(observed, FALSE)
          /\ \A j \in 1..12 : StageOutputs[j] = NoLayer <=> j >= pc'[2]
    /\ (pc[1] = "stage" /\ pc' # pc) => pc' \in {<<"chk", pc[2]>>, <<"raised", pc[2]>>}
    /\ (pc' # pc /\ pc'[1] = "write" /\ pc[1] # "write") =>
          pc = <<"chk", 12>> /\ ~canceled /\ observed' = Append(observed, FALSE)

C12_StagesUninterruptible ==
    [][/\ LinearOrder
       /\ StageReturns => StageOutputs'[pc[2]] = StageResult(pc[2])]_vars

(***************************************************************************)
(* C12, amended: the pipeline is linear (the stages start in their order,  *)
(* each at most once, each after the stage before it returned and the      *)
(* checkpoint between them read the flag as down), and the script itself   *)
(* reads the flag only at the checkpoints: a cancel request changes        *)
(* nothing but the flag, the running stage still returns to its            *)
(* checkpoint, and it is that checkpoint that ends the run.  A stage that  *)
(* runs with the flag down returns its whole output; one that runs while   *)
(* the request comes in may return a part of it, which no later stage      *)
(* uses.  The sink-writing loop does not read the flag: once begun it      *)
(* writes every feature of dissolved_4 and the call returns its ids.       *)
(***************************************************************************)
C12_LinearPolledAtBoundaries ==
    [][/\ LinearOrder
       /\ canceled' # canceled =>
             /\ canceled'
             /\ UNCHANGED <<modell, plugin, parameters, observed, pc, sinks, args, early, late, tail, result>>
       /\ StageReturns =>
             /\ pc' = <<"chk", pc[2]>>
             /\ canceled' = canceled
             /\ ~canceled => StageOutputs'[pc[2]] = StageResult(pc[2])
             /\ canceled => StageOutputs'[pc[2]] \in CutShort(StageResult(pc[2]))
             /\ \A j \in 1..12 : j # pc[2] => StageOutputs'[j] = StageOutputs[j]
       /\ (pc[1] = "chk" /\ canceled /\ pc' # pc) =>
             pc' = <<"canceled", pc[2]>> /\ UNCHANGED <<sinks, early, late>>
       /\ (pc[1] = "write" /\ pc' # pc) =>
             \/ /\ pc' = <<"write", pc[2] + 1>>
                /\ sink'.feats = SubSeq(dissolved_4.feats, 1, pc[2] + 1)
             \/ /\ pc' = <<"done", 0>>
                /\ sink.feats = dissolved_4.feats
                /\ result'.tag = "dict"]_vars

\* the request came while the points were being made: the stage returned
\* fewer points than there are footprints, and checkpoint 7 ended the run
C12_Witness ==
    /\ pc = <<"canceled", 7>>
    /\ Len(centroids.feats) < Len(transformed.feats)
    /\ Len(observed) = 8

(***************************************************************************)
(* C14: on a completed run every feature of the final block layer is in    *)
(* the primary sink exactly once, in its order, and the number pushed as   *)
(* "Number of processed blocks" is the number of features added to the     *)
(* sink.                                                                   *)
(***************************************************************************)
C14_EveryBlockWrittenAndCounted ==
    Done =>
        /\ sink.feats = dissolved_4.feats
        /\ info = Len(sink.feats)

(***************************************************************************)
(* C13: in Modell.processAlgorithm, a run that ends in cancellation, at    *)
(* whichever of the six checkpoints, returns the empty dictionary and has  *)
(* handed no layer to the project.                                         *)
(***************************************************************************)
C13_CancelLeavesNoLayer ==
    step[1] = "canceled" =>
        /\ step[2] \in 1..6
        /\ results = "{}"
        /\ project = <<>>

(***************************************************************************)
(* C15, as the claim has it: after any sequence of initGui and unload      *)
(* calls on one plugin object the registry holds at most one provider of   *)
(* the plugin, it holds one exactly when the last call was initGui, and    *)
(* removeProvider was only ever given a provider the plugin had added      *)
(* before, never None.                                                     *)
(***************************************************************************)
LastCall == IF calls = <<>> THEN "none" ELSE calls[Len(calls)]

Lifecycle ==
    /\ Cardinality(registry) <= 1
    /\ registry # {} <=> LastCall = "initGui"
    /\ registry # {} => registry = {provider}
    /\ \A i \in DOMAIN removed : removed[i] # None /\ removed[i] \in 1..created

C15_AnySequence == Lifecycle

(***************************************************************************)
(* C15, amended: the same holds after every sequence of calls in which     *)
(* initGui and unload take turns, initGui first, which is how the host     *)
(* calls them.                                                             *)
(***************************************************************************)
TakeTurns ==
    \A i \in DOMAIN calls : calls[i] = IF i % 2 = 1 THEN "initGui" ELSE "unload"

C15_HostSequence == TakeTurns => Lifecycle

\* loaded, unloaded and loaded again: the registry holds the second provider
C15_Witness ==
    /\ calls = <<"initGui", "unload", "initGui">>
    /\ registry = {2}
    /\ removed = <<1>>

=============================================================================
